---- MODULE Spec2Model ----
(***************************************************************************)
(* Nap Map backend: the POST /api/plan handler of src/index.js.           *)
(*                                                                         *)
(* The handler validates the request, builds a departure-time window       *)
(* (lo, hi), and bisects it with at most 12 probes.  Each probe awaits one *)
(* Google Directions query, scores every alternative that arrives by the   *)
(* deadline, keeps the best effective score in bestChoice and moves one    *)
(* bound of the window by the fastest alternative's feasibility.           *)
(*                                                                         *)
(* Time is in milliseconds, counted from a reference instant T0 that is a  *)
(* whole number of seconds (Date.now() = T0 + now).  Scores are the        *)
(* source's floating-point scores multiplied by SCORE_SCALE, which makes   *)
(* every weight and the early-arrival penalty an integer; two scores that  *)
(* differ here differ by far more than a double's rounding error there.    *)
(*                                                                         *)
(* A step of the model is what the handler runs between two awaits: the    *)
(* request up to its first query, or the rest of an iteration after a      *)
(* query settles, up to the next query or the response.                    *)
(***************************************************************************)
EXTENDS Integers, Sequences, FiniteSets, TLC

VARIABLES rq, GOOGLE_KEY, sc

vars == <<rq, GOOGLE_KEY, sc>>

(***************************************************************************)
(* Bounds of the model.                                                    *)
(***************************************************************************)
\* the steps a drawn leg is made of are StepKinds[1..NumStepKinds]
NumStepKinds == 5

\* the longest leg drawn, in steps
MaxSteps == 4

\* the latest deadline asked of the constant oracle, in minutes from now
MaxDeadlineMinutes == 90

\* the route lists the oracle can answer with are RouteLists[1..NumRouteLists]
NumRouteLists == 6
\* the requests a client can send are PlanRequests[1..NumPlanRequests]
NumPlanRequests == 6

(***************************************************************************)
(* Program constants.                                                      *)
(***************************************************************************)
MIN_LEAD == 2 * 60 * 1000
LOOKBACK == 6 * 60 * 60 * 1000
MIN_WINDOW == 30 * 60 * 1000
ARRIVAL_MARGIN == 5 * 60 * 1000
WINDOW_STEP == 120000
MAX_PROBES == 12
STOP_SECONDS == 25
STRETCH_SECONDS == 120

\* the source's weights are tenths; SCORE_SCALE * score and
\* SCORE_SCALE * effectiveScore are integers
SCORE_SCALE == 60 * 25
W_LONGEST_STRETCH == (30 * SCORE_SCALE) \div (10 * 60)
W_USED_DURATION == (10 * SCORE_SCALE) \div (10 * 60)
W_HIGHWAY_HINTS == (8 * SCORE_SCALE) \div 10
P_LEFT_TURN == (10 * SCORE_SCALE) \div 10
P_RIGHT_TURN == (16 * SCORE_SCALE) \div 10
P_UTURN == (30 * SCORE_SCALE) \div 10
P_STOP == (5 * SCORE_SCALE) \div 10
\* 0.002 per unit of (targetTime - arriveEpoch)
EARLY_ARRIVAL_PEN == (2 * SCORE_SCALE) \div 1000

Max(a, b) == IF a >= b THEN a ELSE b

(***************************************************************************)
(* String.prototype.includes                                               *)
(***************************************************************************)
includes(m, pat) ==
  \E k \in 1..(Len(m) - Len(pat) + 1) : SubSeq(m, k, k + Len(pat) - 1) = pat

(***************************************************************************)
(* new Date(ms).toISOString() and new Date(iso).getTime(): the ISO text    *)
(* carries the whole seconds and the three millisecond digits.             *)
(***************************************************************************)
toISOString(ms) == [sec |-> ms \div 1000, msec |-> ms % 1000]

getTime(iso) == iso.sec * 1000 + iso.msec

(***************************************************************************)
(* What the Directions API can answer.  An optional JSON field is a        *)
(* sequence of length 0 (absent) or 1 (present): a route is its legs, a    *)
(* leg has its steps and the two duration objects, a step its maneuver     *)
(* and its duration object.                                                *)
(***************************************************************************)
None == <<>>

Some(v) == <<v>>

Step(m, d) == [maneuver |-> m, duration |-> d]

Leg(steps, dur, traffic) ==
  [steps |-> steps, duration |-> dur, duration_in_traffic |-> traffic]

RouteCatalog ==
  << \* 1: motorway, 30 min in traffic, one left turn
     [legs |-> <<Leg(<<Step(Some(""), Some(300)), Step(Some("ramp-left"), Some(600)),
                       Step(Some("merge"), Some(600)), Step(Some("turn-left"), Some(300))>>,
                     Some(1700), Some(1800))>>],
     \* 2: scenic, 35 min, one long stretch, a right turn and a short step
     [legs |-> <<Leg(<<Step(Some(""), Some(900)), Step(None, Some(900)),
                       Step(Some("turn-right"), Some(10)),
                       Step(Some("keep-right"), Some(290))>>,
                     Some(2100), None)>>],
     \* 3: motorway, 30 min, two short steps in place of the left turn
     [legs |-> <<Leg(<<Step(Some("roundabout-left"), Some(20)),
                       Step(Some("straight"), None), Step(Some(""), Some(300)),
                       Step(Some("ramp-left"), Some(600)),
                       Step(Some("merge"), Some(600)), Step(Some(""), Some(300))>>,
                     Some(1900), Some(1800))>>],
     \* 4: a route without legs
     [legs |-> <<>>],
     \* 5: town, 20 min, a u-turn
     [legs |-> <<Leg(<<Step(Some("uturn-left"), Some(30)),
                       Step(Some("turn-slight-left"), Some(130)),
                       Step(Some(""), Some(1040))>>,
                     Some(1200), None)>>] >>

\* data.routes of an answer, as the places of its routes in RouteCatalog
RouteLists ==
  << <<1>>, <<2>>, <<1, 3>>, <<3, 1>>, <<2, 1>>, <<4, 2>>, <<5, 1, 2>> >>

\* the road to C has two routes only
RouteListsTo(destination) ==
  IF destination = "C" THEN {<<1>>, <<2>>, <<2, 1>>}
  ELSE {RouteLists[k] : k \in 1..NumRouteLists}

\* data of the axios response: status and routes (isArray FALSE when
\* data.routes is not an array)
Reply(status, isArray, routes) ==
  [status |-> status, isArray |-> isArray, routes |-> routes]

Replies(destination) ==
  {Reply("OK", TRUE, rs) : rs \in RouteListsTo(destination)}
    \cup {Reply("OK", FALSE, <<>>),
          Reply("OK", TRUE, <<>>),
          Reply("ZERO_RESULTS", TRUE, <<>>),
          Reply("UNKNOWN_ERROR", TRUE, <<1>>)}

(***************************************************************************)
(* getAlternatives, after the await: the throw and the map                 *)
(***************************************************************************)
DirectionsError(data) ==
  data.status # "OK" \/ ~data.isArray \/ Len(data.routes) = 0

\* (leg?.duration_in_traffic || leg?.duration)?.value || 0
durationSecOf(legs) ==
  IF Len(legs) = 0 THEN 0
  ELSE LET leg == legs[1]
           d == IF leg.duration_in_traffic # None THEN leg.duration_in_traffic
                ELSE leg.duration
       IN  IF d = None THEN 0 ELSE d[1]

\* { route: r, leg, durationSec: dur } of the route r with these legs
Alternative(r, legs) ==
  [route |-> r,
   leg |-> IF Len(legs) = 0 THEN None ELSE Some(legs[1]),
   durationSec |-> durationSecOf(legs)]

getAlternatives(data) ==
  [k \in 1..Len(data.routes) |->
     Alternative(data.routes[k], RouteCatalog[data.routes[k]].legs)]

(***************************************************************************)
(* scoreRoute: one pass over the steps                                     *)
(***************************************************************************)
ScoreAcc ==
  [lefts |-> 0, rights |-> 0, uturns |-> 0, stops |-> 0, longestStretch |-> 0,
   currentStretch |-> 0, highwayHints |-> 0]

Bump(b) == IF b THEN 1 ELSE 0

\* fault variant: a short step leaves the running stretch as it is
nextStretch_NoReset(currentStretch, d) ==
  IF d >= STRETCH_SECONDS THEN currentStretch + d ELSE currentStretch

\* currentStretch after a step of d seconds
nextStretch(currentStretch, d) ==
  IF d >= STRETCH_SECONDS THEN currentStretch + d ELSE 0

scoreStep(acc, s) ==
  LET m == IF s.maneuver = None THEN "" ELSE s.maneuver[1]
      d == IF s.duration = None THEN 0 ELSE s.duration[1]
      stretch == nextStretch(acc.currentStretch, d)
  IN  [lefts |-> acc.lefts + Bump(includes(m, "turn-left")),
       rights |-> acc.rights + Bump(includes(m, "turn-right")),
       uturns |-> acc.uturns + Bump(includes(m, "uturn")),
       highwayHints |-> acc.highwayHints
                          + Bump(includes(m, "ramp") \/ includes(m, "merge")
                                 \/ includes(m, "keep-left") \/ includes(m, "keep-right")),
       stops |-> acc.stops + Bump(d < STOP_SECONDS),
       currentStretch |-> stretch,
       longestStretch |-> IF d >= STRETCH_SECONDS /\ stretch > acc.longestStretch
                          THEN stretch ELSE acc.longestStretch]

RECURSIVE scoreSteps(_, _)
scoreSteps(acc, steps) ==
  IF steps = <<>> THEN acc ELSE scoreSteps(scoreStep(acc, Head(steps)), Tail(steps))

\* fault variant: the counters are kept from one call to the next
locals_Kept(last) == last

\* the counters a call starts from, whatever the last call left in its own:
\* they are declared and zeroed inside the function
locals(last) == ScoreAcc

\* one call of scoreRoute, made after a call that left its counters at last:
\* the counters this call ends with, and what it returns
scoreRouteCall(last, candidate) ==
  LET steps == IF candidate.leg = None THEN <<>> ELSE candidate.leg[1].steps
      a == scoreSteps(locals(last), steps)
  IN  [acc |-> a,
       result |->
         [score |-> W_LONGEST_STRETCH * a.longestStretch
                    + W_USED_DURATION * candidate.durationSec
                    + W_HIGHWAY_HINTS * a.highwayHints
                    - P_LEFT_TURN * a.lefts - P_RIGHT_TURN * a.rights
                    - P_UTURN * a.uturns - P_STOP * a.stops,
          metrics |-> [totalDuration |-> candidate.durationSec,
                       longestStretch |-> a.longestStretch,
                       leftTurns |-> a.lefts, rightTurns |-> a.rights,
                       uturns |-> a.uturns, stops |-> a.stops,
                       highwayHints |-> a.highwayHints]]]

scoreRoute(candidate) == scoreRouteCall(ScoreAcc, candidate).result

(***************************************************************************)
(* The request body and the clock                                          *)
(***************************************************************************)
\* Date.now() - T0
Nows == {0, 999}

ArriveAt(text, ms) == [text |-> text, iso |-> toISOString(ms)]

\* fault variant: text that is no date parses to the epoch
DateParse_Lenient(arriveAt) ==
  [nan |-> FALSE,
   ms |-> IF arriveAt[1].text = "iso" THEN getTime(arriveAt[1].iso) ELSE 0]

\* new Date(arriveAt).getTime(); nan: Number.isNaN of it
DateParse(arriveAt) ==
  [nan |-> arriveAt[1].text # "iso",
   ms |-> IF arriveAt[1].text = "iso" THEN getTime(arriveAt[1].iso) ELSE 0]

Body(o, d, a) == [origin |-> o, destination |-> d, arriveAt |-> a]

\* well-formed requests: the destination and the deadline, in ms from now
PlanRequests ==
  << <<"B", 75 * 60 * 1000>>, <<"B", 0 - 60 * 60 * 1000>>,
     <<"C", 2 * 60 * 60 * 1000>>, <<"C", 7 * 60 * 60 * 1000>>,
     <<"B", 3 * 60 * 60 * 1000>>, <<"B", 25 * 60 * 1000>>,
     <<"B", 61 * 60 * 1000 + 1>> >>

Bodies(nowMs) ==
  {Body(Some("A"), Some(PlanRequests[k][1]),
        Some(ArriveAt("iso", nowMs + PlanRequests[k][2]))) : k \in 1..NumPlanRequests}
    \cup {Body(None, Some("B"), Some(ArriveAt("iso", nowMs))),
          Body(Some("A"), Some(""), Some(ArriveAt("iso", nowMs))),
          Body(Some("A"), Some("B"), None),
          Body(Some("A"), Some("B"), Some(ArriveAt("", 0))),
          Body(Some("A"), Some("B"), Some(ArriveAt("next tuesday", 0)))}

\* !x of an optional string
Falsy(x) == x = None \/ x[1] = ""

(***************************************************************************)
(* The state of one request: the handler's locals, its response, and the   *)
(* history the properties read: queries counts the oracle queries issued,  *)
(* hist lists every probe that has ended, with the answer it got, and body *)
(* is the request body received.  candidate is the let of that name in the *)
(* older handler of src/unnamed/part_000, which has no bestChoice.         *)
(***************************************************************************)
Reqs == {1, 2}

NoResponse == [status |-> 0, error |-> "", departIso |-> toISOString(0),
               arriveAtIso |-> toISOString(0), winner |-> None]

IdleRequest ==
  [pc |-> "idle", origin |-> "", destination |-> "", now |-> 0, targetTime |-> 0, lo |-> 0, hi |-> 0, i |-> 0, mid |-> 0,
   bestChoice |-> None, departure_time |-> 0, res |-> NoResponse,
   queries |-> 0, hist |-> <<>>, body |-> Body(None, None, None),
   candidate |-> None]

Respond(s, status, error) ==
  [s EXCEPT !.pc = "done", !.res = [NoResponse EXCEPT !.status = status, !.error = error]]

\* fault variant: the lead time is not enforced on the lower bound
InitLo_NoLead(nowMs, targetTime) == targetTime - LOOKBACK

\* lines 71-72
InitLo(nowMs, targetTime) == Max(nowMs + MIN_LEAD, targetTime - LOOKBACK)

InitHi(lo, targetTime) == Max(lo + MIN_WINDOW, targetTime - ARRIVAL_MARGIN)

\* lines 166-167
Mid(lo, hi, nowMs) ==
  LET mid == (lo + hi) \div 2
  IN  IF mid < nowMs + MIN_LEAD THEN nowMs + MIN_LEAD ELSE mid

\* the head of a loop iteration up to the await in getAlternatives
IssueQuery(s) ==
  LET mid == Mid(s.lo, s.hi, s.now)
  IN  [s EXCEPT !.pc = "awaiting", !.mid = mid,
                !.departure_time = mid \div 1000,
                !.queries = s.queries + 1]

\* fault variant: the early-arrival penalty is left out
effectiveScoreOf_NoPenalty(score, early) == score

\* line 178
effectiveScoreOf(score, early) == score - EARLY_ARRIVAL_PEN * early

\* lines 172-191: one alternative against bestChoice
Proposal(mid, cand, targetTime) ==
  LET arriveEpoch == mid + cand.durationSec * 1000
      scored == scoreRoute(cand)
      early == targetTime - arriveEpoch
  IN  [departIso |-> toISOString(mid),
       arriveAtIso |-> toISOString(arriveEpoch),
       durationSec |-> cand.durationSec,
       score |-> scored,
       effectiveScore |-> effectiveScoreOf(scored.score, early)]

\* fault variant: the duration is left out of the arrival
ArrivesLate_IgnoresDuration(mid, cand, targetTime) == mid > targetTime

ArrivesLate(mid, cand, targetTime) == mid + cand.durationSec * 1000 > targetTime

\* fault variant: a tie replaces the retained candidate
Better_LastWinsTies(proposal, bestChoice) ==
  bestChoice = None \/ proposal.effectiveScore >= bestChoice[1].effectiveScore

Better(proposal, bestChoice) ==
  bestChoice = None \/ proposal.effectiveScore > bestChoice[1].effectiveScore

RECURSIVE Evaluate(_, _, _, _)
Evaluate(bestChoice, alts, mid, targetTime) ==
  IF alts = <<>> THEN bestChoice
  ELSE LET cand == Head(alts)
           proposal == Proposal(mid, cand, targetTime)
       IN  IF ArrivesLate(mid, cand, targetTime)
           THEN Evaluate(bestChoice, Tail(alts), mid, targetTime)
           ELSE Evaluate(IF Better(proposal, bestChoice) THEN Some(proposal) ELSE bestChoice,
                         Tail(alts), mid, targetTime)

\* alts.reduce((a, b) => (a.durationSec < b.durationSec ? a : b))
RECURSIVE reduceFastest(_, _)
reduceFastest(a, rest) ==
  IF rest = <<>> THEN a
  ELSE reduceFastest(IF a.durationSec < Head(rest).durationSec THEN a ELSE Head(rest),
                     Tail(rest))

\* fault variant: the first alternative stands for the fastest
FastestLate_First(alts, mid, targetTime) ==
  mid + Head(alts).durationSec * 1000 > targetTime

\* lines 193-200
FastestLate(alts, mid, targetTime) ==
  LET fastest == reduceFastest(Head(alts), Tail(alts))
      fastestArrive == mid + fastest.durationSec * 1000
  IN  fastestArrive > targetTime

Shrink(s, late) ==
  IF late THEN [s EXCEPT !.hi = s.mid - WINDOW_STEP]
  ELSE [s EXCEPT !.lo = s.mid + WINDOW_STEP]

\* fault variant: the loop stops only once the window is crossed
LoopEnds_WhenCrossed(s) == (s.hi - s.lo) < 0 \/ ~(s.i < MAX_PROBES)

\* fault variant: the break of line 201 is missing
LoopEnds_BudgetOnly(s) == ~(s.i < MAX_PROBES)

\* line 201 and the loop condition of line 165, after i++
LoopEnds(s) == (s.hi - s.lo) < WINDOW_STEP \/ ~(s.i < MAX_PROBES)

\* lines 216-223
Success(s) ==
  [s EXCEPT !.pc = "done",
            !.res = [status |-> 200, error |-> "",
                     departIso |-> s.bestChoice[1].departIso,
                     arriveAtIso |-> s.bestChoice[1].arriveAtIso,
                     winner |-> Some([durationSec |-> s.bestChoice[1].durationSec,
                                      score |-> s.bestChoice[1].score])]]

\* fault variant: no candidate is reported as a server error
Finish_ErrorWhenEmpty(s) ==
  IF s.bestChoice = None THEN Respond(s, 500, "Server error") ELSE Success(s)

\* lines 204-223
Finish(s) ==
  IF s.bestChoice = None
  THEN Respond(s, 502, "No route meets arrival constraint")
  ELSE Success(s)

\* fault variant: a failed query is swallowed and the best so far is answered
Catch_AnswersBestSoFar(s) == Finish(s)

\* lines 225-229
Catch(s) == Respond(s, 500, "Server error")

\* lines 52-72 and the first iteration up to its await
StartRequest(s, body, nowMs, key) ==
  LET received == [s EXCEPT !.body = body]
  IN
  IF Falsy(body.origin) \/ Falsy(body.destination)
     \/ body.arriveAt = None \/ body.arriveAt[1].text = ""
  THEN Respond(received, 400, "origin, destination, arriveAt are required")
  ELSE IF ~key
  THEN Respond(received, 500, "Missing GOOGLE_MAPS_API_KEY")
  ELSE IF DateParse(body.arriveAt).nan
  THEN Respond(received, 400, "arriveAt must be ISO8601")
  ELSE LET targetTime == DateParse(body.arriveAt).ms
           lo == InitLo(nowMs, targetTime)
           hi == InitHi(lo, targetTime)
       IN  IssueQuery([received EXCEPT !.origin = body.origin[1],
                                !.destination = body.destination[1], !.now = nowMs, !.targetTime = targetTime,
                                !.lo = lo, !.hi = hi, !.i = 0, !.bestChoice = None])

\* fault variant: the probe counter is not advanced
NextIteration_NoIncrement(s) == s

\* i++ of line 165
NextIteration(s) == [s EXCEPT !.i = s.i + 1]

Ended(s, data) == [s EXCEPT !.hist = Append(s.hist, [mid |-> s.mid, data |-> data])]

\* the rest of an iteration once the query has answered with data, and what
\* follows it without a further await: the next query or the response
ResumeWith(s, data) ==
  IF DirectionsError(data) THEN Catch(Ended(s, data))
  ELSE LET alts == getAlternatives(data)
           evaluated == [s EXCEPT !.bestChoice = Evaluate(s.bestChoice, alts, s.mid, s.targetTime)]
           shrunk == Shrink(evaluated, FastestLate(alts, s.mid, s.targetTime))
           next == NextIteration(Ended(shrunk, data))
       IN  IF LoopEnds(next) THEN Finish(next) ELSE IssueQuery(next)

\* what the await throws when axios rejects
Rejected == Reply("", FALSE, <<>>)

(***************************************************************************)
(* scoreRoute on its own: any leg the Directions API can return, scored    *)
(* once or several times, with another alternative scored in between.      *)
(***************************************************************************)
StepKinds ==
  << Step(Some(""), Some(300)), Step(Some("turn-right"), Some(10)),
     Step(Some(""), Some(150)), Step(Some("uturn-left"), None),
     Step(Some("merge"), Some(120)), Step(Some("turn-left"), Some(25)) >>

RECURSIVE StepSeqs(_)
StepSeqs(n) ==
  IF n = 0 THEN {<<>>}
  ELSE LET shorter == StepSeqs(n - 1)
       IN  shorter \cup {Append(q, StepKinds[k]) :
                           q \in {x \in shorter : Len(x) = n - 1}, k \in 1..NumStepKinds}

\* leg.duration and leg.duration_in_traffic: both absent, both present
\* (light traffic), the first only
LegDurations ==
  {<<None, None>>, <<Some(1200), Some(1100)>>, <<Some(600), None>>}

Legs == {Leg(q, d[1], d[2]) : q \in StepSeqs(MaxSteps), d \in LegDurations}

\* leg: the leg drawn; acc: the counters the last call ended with; scored and
\* out: the argument and the value of the last call; first: the value of the
\* first call on the leg; between: another alternative was scored after
\* that; again: the leg was scored more than once
NoScoring ==
  [leg |-> Leg(<<>>, None, None), acc |-> ScoreAcc, scored |-> None, out |-> None,
   first |-> None, between |-> FALSE, again |-> FALSE]

\* the alternative getAlternatives makes of a route with the leg drawn
LegCandidate(s) == Alternative(0, <<s.leg>>)

\* another alternative of the same answer
OtherCandidate == Alternative(2, RouteCatalog[2].legs)

CallScoreRoute(s, candidate) ==
  LET call == scoreRouteCall(s.acc, candidate)
  IN  [s EXCEPT !.acc = call.acc, !.scored = Some(candidate), !.out = Some(call.result)]

\* the handler in mid-search, while it scores the alternatives of an answer
MidSearch ==
  StartRequest(IdleRequest,
               Body(Some("A"), Some(PlanRequests[1][1]),
                    Some(ArriveAt("iso", PlanRequests[1][2]))), 0, TRUE)

(***************************************************************************)
(* The older handler, src/unnamed/part_000.  Its validation and window     *)
(* (lines 50-72), its loop head, its query and its catch are those of      *)
(* src/index.js; it differs in what it does with an answer: it takes the   *)
(* shortest route only, keeps the probe whose arrival is nearest to the    *)
(* deadline, and stops as soon as an arrival is within a minute of it.     *)
(***************************************************************************)
\* the for loop of getBestRoute: pick is None or Some of the shortest so far
RECURSIVE pickShortest(_, _)
pickShortest(pick, routes) ==
  IF routes = <<>> THEN pick
  ELSE LET legs == RouteCatalog[Head(routes)].legs
           dur == durationSecOf(legs)
       IN  IF Len(legs) = 0 THEN pickShortest(pick, Tail(routes))
           ELSE IF pick = None \/ dur < pick[1].durationSec
           THEN pickShortest(Some(Alternative(Head(routes), legs)), Tail(routes))
           ELSE pickShortest(pick, Tail(routes))

\* getBestRoute after its await and its throw
getBestRoute(data) == pickShortest(None, data.routes)

\* scoreRoute of part_000, times 60: its loop is that of src/index.js
\* without the u-turn and the highway counters
scoreBest(best) ==
  LET steps == IF best.leg = None THEN <<>> ELSE best.leg[1].steps
      a == scoreSteps(ScoreAcc, steps)
  IN  [score |-> a.longestStretch - 60 * (a.lefts + a.rights) - 30 * a.stops,
       metrics |-> [totalDuration |-> best.durationSec,
                    longestStretch |-> a.longestStretch,
                    leftTurns |-> a.lefts, rightTurns |-> a.rights,
                    stops |-> a.stops]]

Abs(x) == IF x < 0 THEN 0 - x ELSE x

\* c of the iteration
CandidateOf(mid, best) ==
  [departIso |-> toISOString(mid),
   arriveAtIso |-> toISOString(mid + best.durationSec * 1000),
   durationSec |-> best.durationSec,
   score |-> scoreBest(best)]

\* !candidate || delta < Math.abs(new Date(candidate.arriveAtIso).getTime() - targetTime)
Closer(delta, candidate, targetTime) ==
  candidate = None \/ delta < Abs(getTime(candidate[1].arriveAtIso) - targetTime)

\* the break of the iteration and the loop condition, after i++
CandLoopEnds(s, delta) ==
  delta <= 60000 \/ (s.hi - s.lo) < WINDOW_STEP \/ ~(s.i < MAX_PROBES)

CandFinish(s) ==
  IF s.candidate = None THEN Respond(s, 502, "No route found")
  ELSE [s EXCEPT !.pc = "done",
                 !.res = [status |-> 200, error |-> "",
                          departIso |-> s.candidate[1].departIso,
                          arriveAtIso |-> s.candidate[1].arriveAtIso,
                          winner |-> Some([durationSec |-> s.candidate[1].durationSec,
                                           score |-> s.candidate[1].score])]]

\* the rest of an iteration once the query has answered with data; reading
\* best.durationSec of a null pick throws into the catch
CandResumeWith(s, data) ==
  IF DirectionsError(data) \/ getBestRoute(data) = None THEN Catch(Ended(s, data))
  ELSE LET best == getBestRoute(data)[1]
           arriveEpoch == s.mid + best.durationSec * 1000
           delta == Abs(arriveEpoch - s.targetTime)
           kept == IF Closer(delta, s.candidate, s.targetTime)
                   THEN [s EXCEPT !.candidate = Some(CandidateOf(s.mid, best))]
                   ELSE s
           shrunk == Shrink(kept, arriveEpoch > s.targetTime)
           next == NextIteration(Ended(shrunk, data))
       IN  IF CandLoopEnds(next, delta) THEN CandFinish(next) ELSE IssueQuery(next)

\* a single route without legs, besides the answers of src/index.js
CandReplies(destination) == Replies(destination) \cup {Reply("OK", TRUE, <<4>>)}

\* fault variant: bestChoice is one variable of the module, shared by the
\* requests in progress
Locals_SharedBest(all, r, s) ==
  [q \in Reqs |-> IF q = r THEN s
                  ELSE IF all[q].pc = "awaiting"
                       THEN [all[q] EXCEPT !.bestChoice = s.bestChoice]
                       ELSE all[q]]

\* the requests once the handler of request r has run to s: its constants
\* and lets are those of its own call of the handler
Locals(all, r, s) == [all EXCEPT ![r] = s]

\* two requests in progress at once: what they ask and what they are answered
ConcBodies ==
  {Body(Some("A"), Some("B"), Some(ArriveAt("iso", 75 * 60 * 1000))),
   Body(Some("A"), Some("C"), Some(ArriveAt("iso", 50 * 60 * 1000)))}

ConcReplies ==
  {Reply("OK", TRUE, <<1>>), Reply("OK", TRUE, <<2>>), Reply("OK", TRUE, <<2, 1>>)}

(***************************************************************************)
(* Actions                                                                 *)
(***************************************************************************)
Init ==
  /\ rq = [r \in Reqs |-> IdleRequest]
  /\ GOOGLE_KEY \in BOOLEAN
  /\ sc = NoScoring

\* POST /api/plan arrives
Plan(r) ==
  /\ rq[r].pc = "idle"
  /\ \E nowMs \in Nows : \E body \in Bodies(nowMs) :
       rq' = Locals(rq, r, StartRequest(rq[r], body, nowMs, GOOGLE_KEY))
  /\ UNCHANGED <<GOOGLE_KEY, sc>>

\* the awaited axios.get resolves
OracleAnswers(r) ==
  /\ rq[r].pc = "awaiting"
  /\ \E data \in Replies(rq[r].destination) : rq' = Locals(rq, r, ResumeWith(rq[r], data))
  /\ UNCHANGED <<GOOGLE_KEY, sc>>

\* the awaited axios.get rejects (transport error, HTTP error status)
OracleRejects(r) ==
  /\ rq[r].pc = "awaiting"
  /\ rq' = Locals(rq, r, Catch(Ended(rq[r], Rejected)))
  /\ UNCHANGED <<GOOGLE_KEY, sc>>

Next == Plan(1) \/ OracleAnswers(1) \/ OracleRejects(1)

Spec == Init /\ [][Next]_vars

\* every awaited query settles: it resolves or it rejects
LiveSpec == Spec /\ WF_vars(OracleAnswers(1) \/ OracleRejects(1))

ConcInit ==
  /\ rq = [r \in Reqs |-> IdleRequest]
  /\ GOOGLE_KEY = TRUE
  /\ sc = NoScoring

\* POST /api/plan arrives, possibly while another request awaits its query
ConcPlan(r) ==
  /\ rq[r].pc = "idle"
  /\ \E body \in ConcBodies :
       rq' = Locals(rq, r, StartRequest(rq[r], body, 0, GOOGLE_KEY))
  /\ UNCHANGED <<GOOGLE_KEY, sc>>

ConcAnswers(r) ==
  /\ rq[r].pc = "awaiting"
  /\ \E data \in ConcReplies : rq' = Locals(rq, r, ResumeWith(rq[r], data))
  /\ UNCHANGED <<GOOGLE_KEY, sc>>

ConcNext == \E r \in Reqs : ConcPlan(r) \/ ConcAnswers(r) \/ OracleRejects(r)

ConcSpec == ConcInit /\ [][ConcNext]_vars

\* an oracle whose answer never changes: one route, the same at every
\* departure time
ConstPlan(r) ==
  /\ rq[r].pc = "idle"
  /\ \E minutes \in 1..MaxDeadlineMinutes :
       rq' = Locals(rq, r, StartRequest(rq[r],
                                        Body(Some("A"), Some("B"),
                                             Some(ArriveAt("iso", minutes * 60 * 1000))),
                                        0, GOOGLE_KEY))
  /\ UNCHANGED <<GOOGLE_KEY, sc>>

ConstAnswers(r) ==
  /\ rq[r].pc = "awaiting"
  /\ \E k \in {1, 2, 5} :
       /\ rq[r].hist # <<>> => rq[r].hist[1].data = Reply("OK", TRUE, <<k>>)
       /\ rq' = Locals(rq, r, ResumeWith(rq[r], Reply("OK", TRUE, <<k>>)))
  /\ UNCHANGED <<GOOGLE_KEY, sc>>

ConstNext == ConstPlan(1) \/ ConstAnswers(1)

ConstSpec == ConcInit /\ [][ConstNext]_vars

\* the awaited axios.get of getBestRoute resolves
CandAnswers(r) ==
  /\ rq[r].pc = "awaiting"
  /\ \E data \in CandReplies(rq[r].destination) :
       rq' = Locals(rq, r, CandResumeWith(rq[r], data))
  /\ UNCHANGED <<GOOGLE_KEY, sc>>

\* the older handler: it starts, and its query rejects, as in src/index.js
CandNext == Plan(1) \/ CandAnswers(1) \/ OracleRejects(1)

CandSpec == Init /\ [][CandNext]_vars

ScoreInit ==
  /\ rq = [r \in Reqs |-> IF r = 1 THEN MidSearch ELSE IdleRequest]
  /\ GOOGLE_KEY = TRUE
  /\ sc \in {[NoScoring EXCEPT !.leg = leg] : leg \in Legs}

\* scoreRoute(cand) on the alternative with the leg drawn
ScoreLeg ==
  /\ sc' = [CallScoreRoute(sc, LegCandidate(sc)) EXCEPT
              !.first = IF sc.first = None THEN Some(scoreRouteCall(sc.acc, LegCandidate(sc)).result)
                        ELSE sc.first,
              !.again = sc.first # None]
  /\ UNCHANGED <<rq, GOOGLE_KEY>>

\* scoreRoute(cand) on another alternative
ScoreOther ==
  /\ sc' = [CallScoreRoute(sc, OtherCandidate) EXCEPT
              !.between = sc.first # None]
  /\ UNCHANGED <<rq, GOOGLE_KEY>>

ScoreNext == ScoreLeg \/ ScoreOther

ScoreSpec == ScoreInit /\ [][ScoreNext]_vars

(***************************************************************************)
(* What the history of a request says, read from the answers themselves    *)
(***************************************************************************)
Searching(s) == s.queries > 0

QueryFailed(h) == DirectionsError(h.data)

AltsOf(h) == IF QueryFailed(h) THEN <<>> ELSE getAlternatives(h.data)

ArrivalOf(h, k) == h.mid + AltsOf(h)[k].durationSec * 1000

\* the alternatives of probe h that arrive by the deadline, as proposals
RECURSIVE OnTimeFrom(_, _, _)
OnTimeFrom(h, k, targetTime) ==
  IF k > Len(AltsOf(h)) THEN <<>>
  ELSE (IF ArrivalOf(h, k) <= targetTime
        THEN <<Proposal(h.mid, AltsOf(h)[k], targetTime)>> ELSE <<>>)
       \o OnTimeFrom(h, k + 1, targetTime)

\* every on-time alternative of every ended probe, in the order met
RECURSIVE OnTimeSeen(_, _)
OnTimeSeen(hist, targetTime) ==
  IF hist = <<>> THEN <<>>
  ELSE OnTimeFrom(Head(hist), 1, targetTime) \o OnTimeSeen(Tail(hist), targetTime)

\* the first proposal of a non-empty sequence that has the greatest effectiveScore
FirstBest(ps) ==
  ps[CHOOSE k \in 1..Len(ps) :
       /\ \A j \in 1..Len(ps) : ps[j].effectiveScore <= ps[k].effectiveScore
       /\ \A j \in 1..(k - 1) : ps[j].effectiveScore < ps[k].effectiveScore]

SomeLate(h, targetTime) == \E k \in 1..Len(AltsOf(h)) : ArrivalOf(h, k) > targetTime

SomeOnTime(h, targetTime) == \E k \in 1..Len(AltsOf(h)) : ArrivalOf(h, k) <= targetTime

AllLate(h, targetTime) == \A k \in 1..Len(AltsOf(h)) : ArrivalOf(h, k) > targetTime

\* a candidate that some ended probe offered and that arrives by the deadline
OfferedOnTime(s, departMs, arriveMs, durationSec) ==
  /\ arriveMs = departMs + durationSec * 1000
  /\ arriveMs <= s.targetTime
  /\ \E n \in 1..Len(s.hist) :
       /\ s.hist[n].mid = departMs
       /\ \E k \in 1..Len(AltsOf(s.hist[n])) : AltsOf(s.hist[n])[k].durationSec = durationSec

(***************************************************************************)
(* C1: the retained best candidate, and the candidate of a success         *)
(* response, is an alternative offered at a probed departure, with         *)
(* arrival = departure + duration and arrival <= deadline; a late          *)
(* alternative is never retained or returned.                              *)
(***************************************************************************)
C1_NeverLate ==
  \A r \in Reqs :
    LET s == rq[r]
    IN  /\ s.bestChoice # None =>
             OfferedOnTime(s, getTime(s.bestChoice[1].departIso),
                           getTime(s.bestChoice[1].arriveAtIso), s.bestChoice[1].durationSec)
        /\ s.res.status = 200 =>
             /\ s.res.winner # None
             /\ OfferedOnTime(s, getTime(s.res.departIso), getTime(s.res.arriveAtIso),
                              s.res.winner[1].durationSec)

\* a success after a probe that offered an on-time and a late alternative together
C1_Witness ==
  \E r \in Reqs :
    /\ rq[r].res.status = 200
    /\ \E n \in 1..Len(rq[r].hist) :
         SomeLate(rq[r].hist[n], rq[r].targetTime) /\ SomeOnTime(rq[r].hist[n], rq[r].targetTime)

(***************************************************************************)
(* C2: after every ended probe bestChoice is the first of the on-time      *)
(* alternatives of all probes so far that has the greatest effectiveScore  *)
(* (none when there is none); once set it is never cleared and its         *)
(* effectiveScore never decreases.                                         *)
(***************************************************************************)
BestIsFirstBest(s) ==
  LET seen == OnTimeSeen(s.hist, s.targetTime)
  IN  IF seen = <<>> THEN s.bestChoice = None
      ELSE s.bestChoice = Some(FirstBest(seen))

BestOnlyGrows(s, t) ==
  s.bestChoice # None =>
    /\ t.bestChoice # None
    /\ t.bestChoice[1].effectiveScore >= s.bestChoice[1].effectiveScore

C2_BestOverAllProbes ==
  /\ [](\A r \in Reqs : Searching(rq[r]) => BestIsFirstBest(rq[r]))
  /\ [][\A r \in Reqs : BestOnlyGrows(rq[r], rq'[r])]_vars

\* the best was found at an earlier probe than the last, a later probe offered
\* on-time alternatives too, and two on-time alternatives tied for the best
C2_Witness ==
  \E r \in Reqs :
    LET s == rq[r]
        seen == OnTimeSeen(s.hist, s.targetTime)
    IN  /\ s.res.status = 200
        /\ Len(s.hist) >= 2
        /\ SomeOnTime(s.hist[Len(s.hist)], s.targetTime)
        /\ getTime(s.res.departIso) < s.hist[Len(s.hist)].mid
        /\ \E j, k \in 1..Len(seen) :
             /\ j < k
             /\ seen[j] = s.bestChoice[1]
             /\ seen[k] # seen[j]
             /\ seen[k].effectiveScore = seen[j].effectiveScore

(***************************************************************************)
(* C3: when no query failed and at every probe the fastest alternative     *)
(* (hence every alternative) arrived after the deadline, the request ends  *)
(* with 502 'No route meets arrival constraint': no candidate, no 500.     *)
(***************************************************************************)
NoQueryFailed(s) == \A n \in 1..Len(s.hist) : ~QueryFailed(s.hist[n])

AllProbesLate(s) == \A n \in 1..Len(s.hist) : AllLate(s.hist[n], s.targetTime)

C3_AllLateIsInfeasible ==
  \A r \in Reqs :
    LET s == rq[r]
    IN  (s.pc = "done" /\ Searching(s) /\ NoQueryFailed(s) /\ AllProbesLate(s)) =>
          /\ s.res.status = 502
          /\ s.res.error = "No route meets arrival constraint"
          /\ s.res.winner = None
          /\ s.bestChoice = None

\* a deadline still ahead, several probes, every one of them late
C3_Witness ==
  \E r \in Reqs :
    LET s == rq[r]
    IN  /\ s.pc = "done" /\ Searching(s) /\ NoQueryFailed(s) /\ AllProbesLate(s)
        /\ s.targetTime > s.now + MIN_LEAD
        /\ Len(s.hist) >= 3
        /\ s.res.status = 502

(***************************************************************************)
(* C4: a query that answers with a status other than OK, or with no        *)
(* route, or that rejects, ends the request at that probe with 500, also   *)
(* when a candidate was already retained; no query follows it and the      *)
(* request's state is not touched again.                                   *)
(***************************************************************************)
FailureAborts(s) ==
  \A n \in 1..Len(s.hist) :
    QueryFailed(s.hist[n]) =>
      /\ n = Len(s.hist)
      /\ s.pc = "done"
      /\ s.queries = n
      /\ s.res.status = 500
      /\ s.res.winner = None

C4_FailureAborts ==
  /\ [](\A r \in Reqs : FailureAborts(rq[r]))
  /\ [][\A r \in Reqs : rq[r].pc = "done" => rq'[r] = rq[r]]_vars

\* an OK answer with an empty route list, after a candidate was retained
C4_Witness ==
  \E r \in Reqs :
    LET s == rq[r]
    IN  /\ s.res.status = 500
        /\ s.bestChoice # None
        /\ Len(s.hist) >= 2
        /\ s.hist[Len(s.hist)].data = Reply("OK", TRUE, <<>>)

(***************************************************************************)
(* C5: a search issues between 1 and 12 queries, one per loop iteration    *)
(* and never two at a time, and the request reaches exactly one outcome    *)
(* once every query settles.                                               *)
(***************************************************************************)
QueriesInFlight(s) == s.queries - Len(s.hist)

OnePerIteration(s) ==
  /\ 1 <= s.queries /\ s.queries <= MAX_PROBES
  /\ QueriesInFlight(s) = (IF s.pc = "awaiting" THEN 1 ELSE 0)
  /\ s.pc = "awaiting" => s.queries = s.i + 1
  /\ s.pc = "done" =>
       s.queries = (IF QueryFailed(s.hist[Len(s.hist)]) THEN s.i + 1 ELSE s.i)

OneOutcome(s) ==
  /\ s.pc = "done" <=> s.res.status \in {200, 400, 500, 502}
  /\ s.pc # "done" => s.res = NoResponse
  /\ s.res.status \in {200, 502} => Searching(s)

C5_BoundedSequentialTerminating ==
  /\ [](\A r \in Reqs : OneOutcome(rq[r]) /\ (Searching(rq[r]) => OnePerIteration(rq[r])))
  /\ [][\A r \in Reqs : rq[r].res.status # 0 => rq'[r].res = rq[r].res]_vars
  /\ \A r \in Reqs : (rq[r].pc = "awaiting") ~> (rq[r].pc = "done")

\* a search of six probes that ended with an outcome
C5_Witness ==
  \E r \in Reqs :
    rq[r].pc = "done" /\ rq[r].queries = 6 /\ rq[r].i = 6 /\ rq[r].res.status = 200

(***************************************************************************)
(* C6: the window after an adjustment of a bound.  As claimed: lo < hi     *)
(* after every adjustment, the last one before the loop exits included.    *)
(***************************************************************************)
Adjusted(s) == s.i >= 1

C6_Original == \A r \in Reqs : Adjusted(rq[r]) => rq[r].lo < rq[r].hi

(***************************************************************************)
(* C6, amended: after an adjustment lo < hi holds whenever the loop goes   *)
(* on to another probe; the last adjustment before the loop exits can      *)
(* leave lo >= hi, by no more than half of the 120000 ms step, and the     *)
(* loop exits right after every adjustment that leaves hi - lo < 120000.   *)
(***************************************************************************)
C6_CrossedOnlyAtExit ==
  \A r \in Reqs :
    LET s == rq[r]
    IN  Adjusted(s) =>
          /\ s.lo < s.hi \/ s.pc = "done"
          /\ s.hi - s.lo < WINDOW_STEP => s.pc = "done"
          /\ s.hi - s.lo >= 0 - (WINDOW_STEP \div 2)

\* a search that ended with a candidate and a crossed window
C6_Witness ==
  \E r \in Reqs :
    /\ rq[r].pc = "done" /\ Adjusted(rq[r]) /\ rq[r].res.status = 200
    /\ rq[r].hi < rq[r].lo

(***************************************************************************)
(* C7: every oracle query is issued from a window with lo < hi, indeed     *)
(* hi - lo >= 120000 ms, and probes inside it: lo <= mid <= hi.            *)
(***************************************************************************)
C7_ProbeFromOpenWindow ==
  \A r \in Reqs :
    LET s == rq[r]
    IN  s.pc = "awaiting" =>
          /\ s.lo < s.hi
          /\ s.hi - s.lo >= WINDOW_STEP
          /\ s.lo <= s.mid /\ s.mid <= s.hi
          /\ s.mid = (s.lo + s.hi) \div 2

\* a fourth or later query, issued from a window of less than two steps
C7_Witness ==
  \E r \in Reqs :
    rq[r].pc = "awaiting" /\ rq[r].i >= 3 /\ rq[r].hi - rq[r].lo < 2 * WINDOW_STEP

(***************************************************************************)
(* C8: with now as captured at the start of the request, lo >= now +       *)
(* MIN_LEAD in every state of a search, every departure handed to the      *)
(* oracle (the probe, and the departure_time in seconds sent for it) is    *)
(* >= now + MIN_LEAD, and the initial window has hi - lo >= 30 minutes,    *)
(* whatever the deadline, past deadlines included.                         *)
(***************************************************************************)
C8_NeverTooSoon ==
  \A r \in Reqs :
    LET s == rq[r]
    IN  Searching(s) =>
          /\ s.lo >= s.now + MIN_LEAD
          /\ s.mid >= s.now + MIN_LEAD
          /\ s.departure_time * 1000 >= s.now + MIN_LEAD
          /\ s.departure_time = s.mid \div 1000
          /\ \A n \in 1..Len(s.hist) : s.hist[n].mid >= s.now + MIN_LEAD
          /\ s.i = 0 => s.hi - s.lo >= MIN_WINDOW

\* a deadline in the past, a clock off the whole second, a third query
C8_Witness ==
  \E r \in Reqs :
    /\ rq[r].pc = "awaiting" /\ rq[r].i >= 2
    /\ rq[r].targetTime < rq[r].now
    /\ rq[r].now % 1000 # 0

(***************************************************************************)
(* C9: an oracle that always answers with one and the same alternative of  *)
(* duration D, whose latest on-time departure deadline - D lies in the     *)
(* initial window (deadline = now + 2 h and D = 30 min is such a case):    *)
(* the search ends with a candidate whose departure d has d <= deadline -  *)
(* D and deadline - D - d <= 120 s.                                        *)
(***************************************************************************)


\* every probe ended with the answer <<k>>
AlwaysOnly(s, k) ==
  \A n \in 1..Len(s.hist) : s.hist[n].data = Reply("OK", TRUE, <<k>>)

LatestOnTime(s, k) == s.targetTime - durationSecOf(RouteCatalog[k].legs) * 1000

C9_ConvergesWithinThreshold ==
  \A r \in Reqs : \A k \in DOMAIN RouteCatalog :
    LET s == rq[r]
        latest == LatestOnTime(s, k)
    IN  (/\ s.pc = "done" /\ Searching(s) /\ AlwaysOnly(s, k)
         /\ InitLo(s.now, s.targetTime) <= latest
         /\ latest <= InitHi(InitLo(s.now, s.targetTime), s.targetTime)) =>
          /\ s.res.status = 200
          /\ getTime(s.res.departIso) <= latest
          /\ latest - getTime(s.res.departIso) <= WINDOW_STEP

(***************************************************************************)
(* C10: when every probe answered with the same single route (the same     *)
(* steps, the same duration), the candidate returned departs at the        *)
(* latest probed departure that was on time.                               *)
(***************************************************************************)
OnTimeProbes(s) ==
  {s.hist[n].mid : n \in {m \in 1..Len(s.hist) : SomeOnTime(s.hist[m], s.targetTime)}}

C10_LatestOnTimeProbeWins ==
  \A r \in Reqs : \A k \in DOMAIN RouteCatalog :
    LET s == rq[r]
    IN  (s.res.status = 200 /\ AlwaysOnly(s, k)) =>
          /\ getTime(s.res.departIso) \in OnTimeProbes(s)
          /\ \A d \in OnTimeProbes(s) : d <= getTime(s.res.departIso)

\* three on-time probes of the same route, and a late one after the first
C10_Witness ==
  \E r \in Reqs : \E k \in DOMAIN RouteCatalog :
    LET s == rq[r]
    IN  /\ s.res.status = 200 /\ AlwaysOnly(s, k)
        /\ Cardinality(OnTimeProbes(s)) >= 3
        /\ \E n \in 2..Len(s.hist) : AllLate(s.hist[n], s.targetTime)
        /\ SomeOnTime(s.hist[Len(s.hist)], s.targetTime)

(***************************************************************************)
(* C11: the effective score of an on-time alternative is its raw score     *)
(* less EARLY_ARRIVAL_PEN (0.002) for every SECOND by which the arrival    *)
(* precedes the deadline: 1000 s early costs 2 points.  targetTime and     *)
(* the arrival are in milliseconds, so the seconds are their difference    *)
(* over 1000.                                                              *)
(***************************************************************************)
MS_PER_SECOND == 10 * 10 * 10

PenaltyPerSecond(s, p) ==
  LET early == s.targetTime - getTime(p.arriveAtIso)
  IN  /\ (EARLY_ARRIVAL_PEN * early) % MS_PER_SECOND = 0
      /\ p.score.score - p.effectiveScore
           = (EARLY_ARRIVAL_PEN * early) \div MS_PER_SECOND

C11_PenaltyPerSecondEarly ==
  \A r \in Reqs :
    rq[r].bestChoice # None => PenaltyPerSecond(rq[r], rq[r].bestChoice[1])

(***************************************************************************)
(* C12: whatever leg the oracle returns (any steps, any reported total),   *)
(* the metrics scoreRoute returns have longestStretch <= totalDuration.    *)
(***************************************************************************)
C12_StretchWithinTotal ==
  sc.out # None =>
    sc.out[1].metrics.longestStretch <= sc.out[1].metrics.totalDuration

(***************************************************************************)
(* C13: longestStretch is the largest sum of durations over the maximal    *)
(* runs of consecutive steps of at least 120 s each (0 when there is no    *)
(* such step); a step under 120 s, or without a duration, ends the run, so *)
(* the running stretch left at the end is the sum of the run that reaches  *)
(* the last step, or 0; and every step under 25 s is one stop.  The steps  *)
(* 300, 10 (turn-right), 150, 150 give longestStretch 300, rightTurns 1    *)
(* and stops 1.                                                            *)
(***************************************************************************)
StepsOf(candidate) == IF candidate.leg = None THEN <<>> ELSE candidate.leg[1].steps

SecondsOf(step) == IF step.duration = None THEN 0 ELSE step.duration[1]

RECURSIVE SumSeconds(_, _, _)
SumSeconds(steps, a, b) ==
  IF a > b THEN 0 ELSE SecondsOf(steps[a]) + SumSeconds(steps, a + 1, b)

\* steps a..b form a maximal run of steps of at least 120 s
MaximalRun(steps, a, b) ==
  /\ a <= b
  /\ \A k \in a..b : SecondsOf(steps[k]) >= 120
  /\ a = 1 \/ SecondsOf(steps[a - 1]) < 120
  /\ b = Len(steps) \/ SecondsOf(steps[b + 1]) < 120

MaximalRunSums(steps) ==
  {SumSeconds(steps, r[1], r[2]) :
     r \in {p \in (1..Len(steps)) \X (1..Len(steps)) : MaximalRun(steps, p[1], p[2])}}

LargestRunSum(steps) ==
  IF MaximalRunSums(steps) = {} THEN 0
  ELSE CHOOSE m \in MaximalRunSums(steps) : \A n \in MaximalRunSums(steps) : n <= m

\* the sum of the maximal run that reaches the last step, 0 without one
LastRunSum(steps) ==
  IF \E a \in 1..Len(steps) : MaximalRun(steps, a, Len(steps))
  THEN SumSeconds(steps, CHOOSE a \in 1..Len(steps) : MaximalRun(steps, a, Len(steps)),
                  Len(steps))
  ELSE 0

C13_LongestStretchIsLargestRun ==
  sc.scored # None =>
    LET steps == StepsOf(sc.scored[1])
    IN  /\ sc.out[1].metrics.longestStretch = LargestRunSum(steps)
        /\ sc.acc.currentStretch = LastRunSum(steps)
        /\ sc.out[1].metrics.stops
             = Cardinality({k \in 1..Len(steps) : SecondsOf(steps[k]) < 25})

C13_Witness ==
  /\ sc.scored = Some(LegCandidate(sc))
  /\ [k \in 1..Len(sc.leg.steps) |-> SecondsOf(sc.leg.steps[k])] = <<300, 10, 150, 150>>
  /\ sc.leg.steps[2].maneuver = Some("turn-right")
  /\ sc.out[1].metrics.longestStretch = 300
  /\ sc.out[1].metrics.rightTurns = 1
  /\ sc.out[1].metrics.stops = 1

(***************************************************************************)
(* C14: scoreRoute is a pure function of its argument.  A call on the leg  *)
(* returns the score and the metrics that the first call on that leg       *)
(* returned, whatever was scored in between; a call on the argument of the *)
(* call before it returns what that call returned; and no call changes the *)
(* window (lo, hi) or bestChoice of the request being served.              *)
(***************************************************************************)
C14_ScoreRouteIsPure ==
  [][/\ (sc.first # None /\ sc'.scored = Some(LegCandidate(sc))) => sc'.out = sc.first
     /\ sc'.scored = sc.scored => sc'.out = sc.out
     /\ \A r \in Reqs : /\ rq'[r].lo = rq[r].lo
                        /\ rq'[r].hi = rq[r].hi
                        /\ rq'[r].bestChoice = rq[r].bestChoice]_vars

\* the leg has been scored, then another alternative, then the leg again,
\* and the leg makes every counter but one move
C14_Witness ==
  /\ sc.scored = Some(LegCandidate(sc))
  /\ sc.again /\ sc.between
  /\ sc.out = sc.first
  /\ sc.out[1].metrics.longestStretch > 0
  /\ sc.out[1].metrics.stops > 0
  /\ sc.out[1].metrics.uturns > 0
  /\ sc.out[1].metrics.highwayHints > 0
  /\ rq[1].pc = "awaiting" /\ rq[1].lo < rq[1].hi

(***************************************************************************)
(* C15: a request without origin, destination or arriveAt, or whose        *)
(* arriveAt is no valid timestamp, is answered 400 before the search: no   *)
(* oracle query is issued and no window or candidate is created.           *)
(***************************************************************************)
FieldMissing(body) ==
  Falsy(body.origin) \/ Falsy(body.destination) \/ Falsy(
    IF body.arriveAt = None THEN None ELSE Some(body.arriveAt[1].text))

Unparsable(body) == ~FieldMissing(body) /\ body.arriveAt[1].text # "iso"

Received(s) == s.pc # "idle"

NeverSearched(s) ==
  /\ s.pc = "done"
  /\ s.queries = 0 /\ s.hist = <<>>
  /\ s.lo = IdleRequest.lo /\ s.hi = IdleRequest.hi
  /\ s.bestChoice = None /\ s.res.winner = None

C15_Original ==
  \A r \in Reqs :
    (Received(rq[r]) /\ (FieldMissing(rq[r].body) \/ Unparsable(rq[r].body)))
      => (rq[r].res.status = 400 /\ NeverSearched(rq[r]))

\* C15 amended: such a request is rejected before the search in every case,
\* with 400; except that an arriveAt that does not parse, in a request that
\* has its three fields, is answered 500 when the server has no API key.
C15_RejectedBeforeSearch ==
  \A r \in Reqs :
    (Received(rq[r]) /\ (FieldMissing(rq[r].body) \/ Unparsable(rq[r].body)))
      => /\ NeverSearched(rq[r])
         /\ rq[r].res.status
              = IF Unparsable(rq[r].body) /\ ~GOOGLE_KEY THEN 500 ELSE 400

C15_Witness ==
  /\ GOOGLE_KEY
  /\ Unparsable(rq[1].body)
  /\ rq[1].res.status = 400 /\ rq[1].res.error = "arriveAt must be ISO8601"
  /\ NeverSearched(rq[1])

(***************************************************************************)
(* C16: when requests interleave at their awaits, a step changes lo, hi,   *)
(* bestChoice and the probe count of one request at most, and every        *)
(* request is, at each moment, where it would be had it run alone and      *)
(* received the same answers: same window, same bestChoice, same probe     *)
(* count, same response.                                                   *)
(***************************************************************************)
RECURSIVE Alone(_, _)
Alone(s, hist) ==
  IF hist = <<>> THEN s ELSE Alone(ResumeWith(s, Head(hist).data), Tail(hist))

RunAlone(s) == Alone(StartRequest(IdleRequest, s.body, s.now, TRUE), s.hist)

Touched(s, t) ==
  s.lo # t.lo \/ s.hi # t.hi \/ s.bestChoice # t.bestChoice \/ s.i # t.i
    \/ s.queries # t.queries

C16_RequestsAreIndependent ==
  [][/\ \A r, q \in Reqs : (Touched(rq[r], rq'[r]) /\ q # r) => rq'[q] = rq[q]
     /\ \A r \in Reqs : Received(rq'[r]) => rq'[r] = RunAlone(rq'[r])]_vars

\* both requests await a query at once, each after two probes or more and
\* with a candidate of its own
C16_Witness ==
  /\ rq[1].pc = "awaiting" /\ rq[2].pc = "awaiting"
  /\ Len(rq[1].hist) > 1 /\ Len(rq[2].hist) > 1
  /\ rq[1].bestChoice # None /\ rq[2].bestChoice # None
  /\ rq[1].bestChoice # rq[2].bestChoice
  /\ rq[1].lo # rq[2].lo /\ rq[1].hi # rq[2].hi

(***************************************************************************)
(* C17: a probe that is answered with alternatives moves exactly one       *)
(* bound.  If the alternative of least duration arrives after the deadline *)
(* hi becomes mid - 120000 and lo stays, otherwise lo becomes mid + 120000 *)
(* and hi stays; lo only ever increases and hi only ever decreases, each   *)
(* strictly when it moves; and lo moves exactly when some alternative of   *)
(* the probe arrives by the deadline.                                      *)
(***************************************************************************)
LeastDuration(h) ==
  CHOOSE d \in {AltsOf(h)[k].durationSec : k \in 1..Len(AltsOf(h))} :
    \A k \in 1..Len(AltsOf(h)) : d <= AltsOf(h)[k].durationSec

ProbeEnds(s, t) == Len(t.hist) = Len(s.hist) + 1

C17_OneBoundMovesPerProbe ==
  [][\A r \in Reqs :
       /\ rq'[r].lo >= rq[r].lo \/ ~Searching(rq[r])
       /\ rq'[r].hi <= rq[r].hi \/ ~Searching(rq[r])
       /\ (ProbeEnds(rq[r], rq'[r]) /\ ~QueryFailed(rq'[r].hist[Len(rq'[r].hist)])) =>
            LET h == rq'[r].hist[Len(rq'[r].hist)]
                s == rq[r]
                t == rq'[r]
            IN  /\ h.mid = s.mid
                /\ IF h.mid + LeastDuration(h) * 1000 > s.targetTime
                   THEN t.hi = h.mid - 120000 /\ t.hi < s.hi /\ t.lo = s.lo
                   ELSE t.lo = h.mid + 120000 /\ t.lo > s.lo /\ t.hi = s.hi
                /\ (t.lo # s.lo) # (t.hi # s.hi)
                /\ (t.lo # s.lo) <=> SomeOnTime(h, s.targetTime)]_vars

\* lo has moved at a probe where one alternative was late and a slower-listed
\* one on time, and hi at another probe
C17_Witness ==
  \E n, m \in 1..Len(rq[1].hist) :
    /\ n < m
    /\ SomeLate(rq[1].hist[n], rq[1].targetTime)
    /\ SomeOnTime(rq[1].hist[n], rq[1].targetTime)
    /\ ~QueryFailed(rq[1].hist[m]) /\ AllLate(rq[1].hist[m], rq[1].targetTime)
    /\ rq[1].lo = rq[1].hist[n].mid + 120000
    /\ rq[1].hi = rq[1].hist[m].mid - 120000

(***************************************************************************)
(* C18: a step moves one of the three turn counters at most, so that       *)
(* leftTurns + rightTurns + uturns <= the number of steps; a step whose    *)
(* maneuver is a u-turn ('uturn-left', 'uturn-right') counts as a u-turn   *)
(* and as nothing else.                                                    *)
(***************************************************************************)
C18_OneTurnCounterPerStep ==
  sc.scored # None =>
    LET steps == StepsOf(sc.scored[1])
        m == sc.out[1].metrics
    IN  /\ m.leftTurns + m.rightTurns + m.uturns <= Len(steps)
        /\ m.uturns > 0 =>
             m.leftTurns <= Cardinality({k \in 1..Len(steps) :
                                           steps[k].maneuver = Some("turn-left")})

(***************************************************************************)
(* C19: when every query is answered with the same single alternative, of  *)
(* duration D, and leaving at the initial lower bound would arrive by the  *)
(* deadline (lo + D <= deadline), some probe is on time and the request    *)
(* ends with a candidate, not with 'No route meets arrival constraint'.    *)
(***************************************************************************)
ConstantOracle(s) ==
  /\ s.hist # <<>>
  /\ \A n \in 1..Len(s.hist) :
       /\ ~QueryFailed(s.hist[n])
       /\ Len(s.hist[n].data.routes) = 1
       /\ s.hist[n].data = s.hist[1].data

C19_FeasibleAtLoIsFound ==
  \A r \in Reqs :
    LET s == rq[r]
    IN  (/\ s.pc = "done"
         /\ ConstantOracle(s)
         /\ InitLo(s.now, s.targetTime) + AltsOf(s.hist[1])[1].durationSec * 1000
              <= s.targetTime)
          => /\ s.res.status = 200
             /\ \E n \in 1..Len(s.hist) : SomeOnTime(s.hist[n], s.targetTime)

(***************************************************************************)
(* C20: the older handler of src/unnamed/part_000 never answers with       *)
(* success a candidate whose arrival is after the deadline.                *)
(***************************************************************************)
C20_CandidateNeverLate ==
  \A r \in Reqs :
    rq[r].res.status = 200 => getTime(rq[r].res.arriveAtIso) <= rq[r].targetTime

====
